---- MODULE Spec2Model ----
(***************************************************************************)
(* Model of RoboflowService (src/unnamed/part_000): the service's fields,  *)
(* its initialize / isAvailable / detectMold operations and the pure       *)
(* helpers determineSeverity, generateDescription, getMoldRecommendations. *)
(*                                                                         *)
(* Numbers.  Confidences, relative areas and normalised coordinates are    *)
(* fractions in the code; here they are integers counted in units of       *)
(* 1/Scale, so 0.8 is (8 * Scale) \div 10.  Pixel quantities (prediction   *)
(* x, y, width, height and the image's width and height) are integers.     *)
(* The pixel values and Math.random() values drawn below are chosen so     *)
(* that every quotient the code forms is exact in these units, except      *)
(* Math.sqrt, which is rounded down to a multiple of 1/Scale.              *)
(***************************************************************************)
EXTENDS Integers, Sequences, FiniteSets, TLC

VARIABLES
    apiKey,         \* this.apiKey: NULL, DemoKey or a real key
    rf,             \* this.rf: NULL or the Roboflow client of a key
    model,          \* this.model: NULL or the model handle of a key
    isInitialized,  \* this.isInitialized
    pending,        \* initialize calls suspended at `await import(...)`, per key
    initOut,        \* how the latest finished initialize call settled
    stable,         \* some initialize call has resolved true and no initialize
                    \* call was started after it
    now,            \* Date.now()
    out,            \* the settlement of the detectMold call that just finished,
                    \* with the image (frame) it was called on
    issued,         \* ids detectMold has returned since Date.now() last changed
    sevIn,          \* arguments handed to determineSeverity (classifier runs)
    sevOut          \* the tiers determineSeverity returned for sevIn

vars == <<apiKey, rf, model, isInitialized, pending, initOut, stable, now, out,
          issued, sevIn, sevOut>>

svcVars == <<apiKey, rf, model, isInitialized, pending, initOut, stable>>
sevVars == <<sevIn, sevOut>>

----------------------------------------------------------------------------
(* Units and bounds *)

Scale == 100 * 100

MaxClock == 1
MaxPending == 2

NULL == "null"
DemoKey == "demo"
RealKeys == {"rf_live_key"}
Keys == {DemoKey} \cup RealKeys

\* Values Math.random() takes in the model, in units of 1/Scale: 0, 1/2 and
\* the largest value below 1.
RandVals == {0, Scale \div 2, Scale - 1}
RandEnds == {0, Scale - 1}

\* The six draws of one loop iteration of generateMockDetections, in the
\* order of the code: confidence, area, x, y, width, height.  The draws for
\* x and y are taken equal, and so are those for width and height, to keep
\* the enumeration small.
MockDraws ==
    {<<c, a, l, l, e, e>> : c \in RandVals, a \in RandVals, l \in RandEnds, e \in RandEnds}

\* imageElement: width and height in pixels.
Images == {[width |-> 100, height |-> 100], [width |-> 50, height |-> 100]}

\* Predictions model.detect may return.  A field the service left out is
\* absent from the record.
Preds == {
    [class |-> "mold", confidence |-> (49 * Scale) \div 100,
     x |-> 50, y |-> 50, width |-> 10, height |-> 10],
    [x |-> 50, y |-> 50],
    [class |-> "Mouldy", confidence |-> (85 * Scale) \div 100,
     x |-> 90, y |-> 50, width |-> 40, height |-> 40],
    [class |-> "fungal", confidence |-> (65 * Scale) \div 100,
     x |-> 20, y |-> 20, width |-> 20, height |-> 20],
    [class |-> "mildew", confidence |-> (80 * Scale) \div 100,
     x |-> 50, y |-> 50, width |-> 40, height |-> 25],
    [class |-> "mold", confidence |-> (75 * Scale) \div 100,
     x |-> 0, y |-> 0, width |-> 10, height |-> 10],
    [class |-> "constructor", confidence |-> (70 * Scale) \div 100,
     x |-> 50, y |-> 50, width |-> 20, height |-> 10],
    [class |-> "mold", confidence |-> (55 * Scale) \div 100,
     x |-> 50, y |-> 50, width |-> -20, height |-> 20] }

MaxPreds == 2

\* The documented minimum detection confidence, CONFIDENCE_THRESHOLD=0.5.
CONFIDENCE_THRESHOLD == Scale \div 2

PredLists == UNION {[1..n -> Preds] : n \in 0..MaxPreds}

\* What `await this.model.detect(imageElement)` may produce: it throws,
\* yields null, yields a value that is not an array, or yields an array.
Responses == {[kind |-> "throws", predictions |-> <<>>],
              [kind |-> "null", predictions |-> <<>>],
              [kind |-> "notArray", predictions |-> <<>>]}
             \cup {[kind |-> "array", predictions |-> ps] : ps \in PredLists}

----------------------------------------------------------------------------
(* Library functions *)

Max(a, b) == IF a >= b THEN a ELSE b
Min(a, b) == IF a <= b THEN a ELSE b

\* Math.round(confidence * 100)
RoundPct(confidence) == (confidence * 100 + Scale \div 2) \div Scale

RECURSIVE SqrtSearch(_, _, _)
SqrtSearch(n, lo, hi) ==
    IF lo >= hi THEN lo
    ELSE LET mid == (lo + hi + 1) \div 2
         IN IF mid * mid <= n THEN SqrtSearch(n, mid, hi)
                              ELSE SqrtSearch(n, lo, mid - 1)

\* Math.sqrt(area), both in units of 1/Scale, rounded down.
MathSqrt(area) == SqrtSearch(area * Scale, 0, Scale)

\* prediction.f || d for a numeric field: absent and 0 are falsy.
NumOr(p, f, d) == IF f \in DOMAIN p THEN (IF p[f] = 0 THEN d ELSE p[f]) ELSE d

\* prediction.f || d for a string field: absent and '' are falsy.
StrOr(p, f, d) == IF f \in DOMAIN p THEN (IF p[f] = "" THEN d ELSE p[f]) ELSE d

\* className.toLowerCase() on the class names of Preds.
LowerCase ==
    [c \in {"mold", "Mouldy", "fungal", "mildew", "constructor"} |->
        CASE c = "Mouldy" -> "mouldy"
          [] OTHER -> c]

toLowerCase(className) == LowerCase[className]

----------------------------------------------------------------------------
(* Pure helpers of RoboflowService *)

\* determineSeverity with an inclusive comparison in the critical rule.
determineSeverityInclusive(confidence, area) ==
    IF confidence >= (8 * Scale) \div 10 /\ area >= Scale \div 10 THEN "critical"
    ELSE IF confidence > (7 * Scale) \div 10 \/ area > (5 * Scale) \div 100 THEN "high"
    ELSE IF confidence > (6 * Scale) \div 10 THEN "medium"
    ELSE "low"

\* determineSeverity with the area comparison of the critical rule reversed.
determineSeverityReversed(confidence, area) ==
    IF confidence > (8 * Scale) \div 10 /\ area < Scale \div 10 THEN "critical"
    ELSE IF confidence > (7 * Scale) \div 10 \/ area > (5 * Scale) \div 100 THEN "high"
    ELSE IF confidence > (6 * Scale) \div 10 THEN "medium"
    ELSE "low"

determineSeverity(confidence, area) ==
    IF confidence > (8 * Scale) \div 10 /\ area > Scale \div 10 THEN "critical"
    ELSE IF confidence > (7 * Scale) \div 10 \/ area > (5 * Scale) \div 100 THEN "high"
    ELSE IF confidence > (6 * Scale) \div 10 THEN "medium"
    ELSE "low"

\* The description is the template text with the rounded percentage in it;
\* `prefix` is the part of the text before the sentence proper.
descriptions ==
    [mold |-> "Mold growth detected with",
     mouldy |-> "Moldy surface identified with",
     fungal |-> "Fungal growth observed with"]

\* The property names every object literal inherits from Object.prototype;
\* descriptions[name] yields the inherited member (a function or an object,
\* both truthy) for them.
ObjectPrototypeKeys ==
    {"constructor", "toString", "toLocaleString", "valueOf", "hasOwnProperty",
     "isPrototypeOf", "propertyIsEnumerable", "__proto__"}

\* descriptions[key] || generic: an own template, else an inherited member of
\* Object.prototype (returned as it is, it is no text and holds no
\* percentage), else the generic template.
generateDescription(className, confidence) ==
    LET confidencePct == RoundPct(confidence)
        key == toLowerCase(className)
    IN IF key \in DOMAIN descriptions
       THEN [prefix |-> "", text |-> descriptions[key], pct |-> confidencePct]
       ELSE IF key \in ObjectPrototypeKeys
       THEN [prefix |-> "", text |-> "Object.prototype member", member |-> key]
       ELSE [prefix |-> "", text |-> "Mold-like substance detected with",
             pct |-> confidencePct]

base == <<"Identify and eliminate moisture source",
          "Improve ventilation in affected area",
          "Monitor for spread to adjacent areas">>

specific ==
    [critical |-> <<"IMMEDIATE professional mold remediation required",
                    "Evacuate area until professional assessment",
                    "Contact certified mold remediation specialist",
                    "Consider temporary relocation if extensive">>,
     high |-> <<"Professional mold remediation recommended",
                "Wear protective equipment when in area",
                "Schedule professional air quality testing",
                "Document extent for insurance purposes">>,
     medium |-> <<"Professional assessment recommended",
                  "Clean with appropriate mold removal products",
                  "Increase air circulation and dehumidification",
                  "Monitor closely for expansion">>,
     low |-> <<"Clean affected area with mold removal solution",
               "Ensure proper ventilation",
               "Regular monitoring recommended",
               "Address any moisture issues promptly">>]

\* getMoldRecommendations with the key of the critical list misspelt, so
\* that the lookup of 'critical' falls back to the empty list.
getMoldRecommendationsMisspelt(severity) ==
    base \o (IF severity \in DOMAIN specific \ {"critical"} THEN specific[severity]
             ELSE <<>>)

getMoldRecommendations(severity) ==
    base \o (IF severity \in DOMAIN specific THEN specific[severity] ELSE <<>>)

----------------------------------------------------------------------------
(* Detections *)

\* RealDetection without the clamping of x and y to [0, 1].
RealDetectionUnclamped(prediction, index, imageElement, time) ==
    LET confidence == NumOr(prediction, "confidence", 0)
        width == NumOr(prediction, "width", 50)
        height == NumOr(prediction, "height", 50)
        x == NumOr(prediction, "x", 0)
        y == NumOr(prediction, "y", 0)
        area == (width * height * Scale) \div (imageElement.width * imageElement.height)
    IN [id |-> [tag |-> "mold", time |-> time, index |-> index],
        type |-> "mold",
        severity |-> determineSeverity(confidence, area),
        confidence |-> confidence,
        location |->
            [x |-> ((2 * x - width) * Scale) \div (2 * imageElement.width),
             y |-> ((2 * y - height) * Scale) \div (2 * imageElement.height),
             width |-> Min(Scale, (width * Scale) \div imageElement.width),
             height |-> Min(Scale, (height * Scale) \div imageElement.height)],
        description |-> generateDescription(StrOr(prediction, "class", "mold"), confidence),
        recommendations |-> getMoldRecommendations(determineSeverity(confidence, area)),
        class |-> StrOr(prediction, "class", "mold"),
        rawPrediction |-> prediction]

\* One element of predictions.map(...) in detectMold.
RealDetection(prediction, index, imageElement, time) ==
    LET confidence == NumOr(prediction, "confidence", 0)
        width == NumOr(prediction, "width", 50)
        height == NumOr(prediction, "height", 50)
        x == NumOr(prediction, "x", 0)
        y == NumOr(prediction, "y", 0)
        area == (width * height * Scale) \div (imageElement.width * imageElement.height)
    IN [id |-> [tag |-> "mold", time |-> time, index |-> index],
        type |-> "mold",
        severity |-> determineSeverity(confidence, area),
        confidence |-> confidence,
        location |->
            [x |-> Max(0, Min(Scale, ((2 * x - width) * Scale) \div (2 * imageElement.width))),
             y |-> Max(0, Min(Scale, ((2 * y - height) * Scale) \div (2 * imageElement.height))),
             width |-> Min(Scale, (width * Scale) \div imageElement.width),
             height |-> Min(Scale, (height * Scale) \div imageElement.height)],
        description |-> generateDescription(StrOr(prediction, "class", "mold"), confidence),
        recommendations |-> getMoldRecommendations(determineSeverity(confidence, area)),
        class |-> StrOr(prediction, "class", "mold"),
        rawPrediction |-> prediction]

\* MockDetection with the id template of the model path.
MockDetectionUntagged(r, i, time) ==
    LET confidence == (6 * Scale) \div 10 + (r[1] * 3) \div 10
        area == Scale \div 100 + (r[2] * 5) \div 100
    IN [id |-> [tag |-> "mold", time |-> time, index |-> i],
        type |-> "mold",
        severity |-> determineSeverity(confidence, area),
        confidence |-> confidence,
        location |->
            [x |-> (r[3] * 7) \div 10 + Scale \div 10,
             y |-> (r[4] * 7) \div 10 + Scale \div 10,
             width |-> MathSqrt(area) + r[5] \div 10,
             height |-> MathSqrt(area) + r[6] \div 10],
        description |-> [prefix |-> "Demo: ", text |-> "Mold growth detected with",
                         pct |-> RoundPct(confidence)],
        recommendations |-> getMoldRecommendations(determineSeverity(confidence, area)),
        class |-> "mold",
        rawPrediction |-> [demo |-> TRUE, confidence |-> confidence, area |-> area]]

\* MockDetection with a confidence spread of 0.4 instead of 0.3.
MockDetectionWide(r, i, time) ==
    LET confidence == (6 * Scale) \div 10 + (r[1] * 4) \div 10
        area == Scale \div 100 + (r[2] * 5) \div 100
    IN [id |-> [tag |-> "demo_mold", time |-> time, index |-> i],
        type |-> "mold",
        severity |-> determineSeverity(confidence, area),
        confidence |-> confidence,
        location |->
            [x |-> (r[3] * 7) \div 10 + Scale \div 10,
             y |-> (r[4] * 7) \div 10 + Scale \div 10,
             width |-> MathSqrt(area) + r[5] \div 10,
             height |-> MathSqrt(area) + r[6] \div 10],
        description |-> [prefix |-> "Demo: ", text |-> "Mold growth detected with",
                         pct |-> RoundPct(confidence)],
        recommendations |-> getMoldRecommendations(determineSeverity(confidence, area)),
        class |-> "mold",
        rawPrediction |-> [demo |-> TRUE, confidence |-> confidence, area |-> area]]

\* One loop iteration of generateMockDetections; r holds its six
\* Math.random() values in the order the code draws them.
MockDetection(r, i, time) ==
    LET confidence == (6 * Scale) \div 10 + (r[1] * 3) \div 10
        area == Scale \div 100 + (r[2] * 5) \div 100
    IN [id |-> [tag |-> "demo_mold", time |-> time, index |-> i],
        type |-> "mold",
        severity |-> determineSeverity(confidence, area),
        confidence |-> confidence,
        location |->
            [x |-> (r[3] * 7) \div 10 + Scale \div 10,
             y |-> (r[4] * 7) \div 10 + Scale \div 10,
             width |-> MathSqrt(area) + r[5] \div 10,
             height |-> MathSqrt(area) + r[6] \div 10],
        description |-> [prefix |-> "Demo: ", text |-> "Mold growth detected with",
                         pct |-> RoundPct(confidence)],
        recommendations |-> getMoldRecommendations(determineSeverity(confidence, area)),
        class |-> "mold",
        rawPrediction |-> [demo |-> TRUE, confidence |-> confidence, area |-> area]]

\* generateMockDetections: rn is the draw that fixes numDetections, draws the
\* draws of the loop iterations.
generateMockDetections(rn, draws, time) ==
    LET numDetections == (rn * 3) \div Scale
    IN [i \in 1..numDetections |-> MockDetection(draws[i], i - 1, time)]

----------------------------------------------------------------------------
(* The service *)

\* The frame of a settlement whose detections were not normalised against
\* the image.
NoFrame == [width |-> 0, height |-> 0]

NoCall == [status |-> "none", path |-> "none", resp |-> "none", error |-> "",
           frame |-> NoFrame, dets |-> <<>>]

isAvailable == isInitialized /\ (apiKey = DemoKey \/ model # NULL)

Idle == out.status = "none"

\* State after `new RoboflowService(apiKey?)`.
Init ==
    /\ apiKey \in {NULL} \cup Keys
    /\ rf = NULL
    /\ model = NULL
    /\ isInitialized = FALSE
    /\ pending = [k \in RealKeys |-> 0]
    /\ initOut = "none"
    /\ stable = FALSE
    /\ now = 0
    /\ out = NoCall
    /\ issued = {}
    /\ sevIn = <<>>
    /\ sevOut = <<>>

\* initialize('demo'): runs to its return without suspending.
InitializeDemo ==
    /\ Idle
    /\ apiKey' = DemoKey
    /\ isInitialized' = TRUE
    /\ initOut' = "true"
    /\ stable' = TRUE
    /\ UNCHANGED <<rf, model, pending, now, out, issued, sevVars>>

\* initialize(k) with a real key, up to `await import('roboflow-js')`.
InitializeBegin(k) ==
    /\ Idle
    /\ pending[k] < MaxPending
    /\ apiKey' = k
    /\ pending' = [pending EXCEPT ![k] = @ + 1]
    /\ stable' = FALSE
    /\ UNCHANGED <<rf, model, isInitialized, initOut, now, out, issued, sevVars>>

\* initialize(k) after the import: client and model are created.
InitializeSucceed(k) ==
    /\ Idle
    /\ pending[k] > 0
    /\ pending' = [pending EXCEPT ![k] = @ - 1]
    /\ rf' = k
    /\ model' = k
    /\ isInitialized' = TRUE
    /\ initOut' = "true"
    /\ stable' = TRUE
    /\ UNCHANGED <<apiKey, now, out, issued, sevVars>>

\* initialize(k): the import, the client or the model throws; the catch block runs.
InitializeFail(k) ==
    /\ Idle
    /\ pending[k] > 0
    /\ pending' = [pending EXCEPT ![k] = @ - 1]
    /\ isInitialized' = FALSE
    /\ rf' = NULL
    /\ model' = NULL
    /\ initOut' = "rejected"
    /\ UNCHANGED <<apiKey, stable, now, out, issued, sevVars>>

\* Date.now() advances.  An id carries the time it was made at, so the ids
\* of an earlier millisecond cannot be made again and are forgotten.
Tick ==
    /\ Idle
    /\ now < MaxClock
    /\ now' = now + 1
    /\ issued' = {}
    /\ UNCHANGED <<svcVars, out, sevVars>>

\* detectMold in demo mode.
DetectMoldDemo ==
    /\ Idle
    /\ apiKey = DemoKey
    /\ \E rn \in RandVals : \E draws \in [1..((rn * 3) \div Scale) -> MockDraws] :
          out' = [status |-> "resolved", path |-> "mock", resp |-> "none",
                  error |-> "", frame |-> NoFrame,
                  dets |-> generateMockDetections(rn, draws, now)]
    /\ UNCHANGED <<svcVars, now, issued, sevVars>>

\* detectMold without a usable model, falling back to mock detections
\* instead of throwing.
DetectMoldNotInitializedFallback ==
    /\ Idle
    /\ apiKey # DemoKey
    /\ ~isAvailable \/ model = NULL
    /\ \E rn \in RandVals : \E draws \in [1..((rn * 3) \div Scale) -> MockDraws] :
          out' = [status |-> "resolved", path |-> "mock", resp |-> "none",
                  error |-> "", frame |-> NoFrame,
                  dets |-> generateMockDetections(rn, draws, now)]
    /\ UNCHANGED <<svcVars, now, issued, sevVars>>

\* detectMold without a usable model.
DetectMoldNotInitialized ==
    /\ Idle
    /\ apiKey # DemoKey
    /\ ~isAvailable \/ model = NULL
    /\ out' = [status |-> "rejected", path |-> "none", resp |-> "none",
               error |-> "Roboflow model not initialized", frame |-> NoFrame,
               dets |-> <<>>]
    /\ UNCHANGED <<svcVars, now, issued, sevVars>>

\* DetectSettlement with the catch block returning an empty list.
DetectSettlementSwallow(resp, imageElement, time) ==
    IF resp.kind # "array" \/ Len(resp.predictions) = 0
    THEN [status |-> "resolved", path |-> "real", resp |-> resp.kind,
          error |-> "", frame |-> imageElement, dets |-> <<>>]
    ELSE [status |-> "resolved", path |-> "real", resp |-> resp.kind,
          error |-> "", frame |-> imageElement,
          dets |-> [i \in 1..Len(resp.predictions) |->
                      RealDetection(resp.predictions[i], i - 1, imageElement, time)]]

\* What detectMold settles with once model.detect has answered.
DetectSettlement(resp, imageElement, time) ==
    IF resp.kind = "throws"
    THEN [status |-> "rejected", path |-> "real", resp |-> resp.kind,
          error |-> "Mold detection failed", frame |-> imageElement, dets |-> <<>>]
    ELSE IF resp.kind # "array" \/ Len(resp.predictions) = 0
    THEN [status |-> "resolved", path |-> "real", resp |-> resp.kind,
          error |-> "", frame |-> imageElement, dets |-> <<>>]
    ELSE [status |-> "resolved", path |-> "real", resp |-> resp.kind,
          error |-> "", frame |-> imageElement,
          dets |-> [i \in 1..Len(resp.predictions) |->
                      RealDetection(resp.predictions[i], i - 1, imageElement, time)]]

\* detectMold on the model.
DetectMoldReal ==
    /\ Idle
    /\ apiKey # DemoKey
    /\ isAvailable /\ model # NULL
    /\ \E imageElement \in Images : \E resp \in Responses :
          out' = DetectSettlement(resp, imageElement, now)
    /\ UNCHANGED <<svcVars, now, issued, sevVars>>

\* The caller takes the settlement of detectMold.
Deliver ==
    /\ ~Idle
    /\ issued' = issued \cup {out.dets[i].id : i \in 1..Len(out.dets)}
    /\ out' = NoCall
    /\ UNCHANGED <<svcVars, now, sevVars>>

Next ==
    \/ InitializeDemo
    \/ \E k \in RealKeys : InitializeBegin(k)
    \/ \E k \in RealKeys : InitializeSucceed(k)
    \/ \E k \in RealKeys : InitializeFail(k)
    \/ Tick
    \/ DetectMoldDemo
    \/ DetectMoldNotInitialized
    \/ DetectMoldReal
    \/ Deliver

Spec == Init /\ [][Next]_vars

----------------------------------------------------------------------------
(* The classifier on its own: determineSeverity applied to two argument  *)
(* pairs drawn from a grid around its thresholds.                          *)

SevConfs == {(k * Scale) \div 1000 : k \in {0, 490, 600, 601, 700, 701, 800, 801, 1000}}
SevAreas == {(k * Scale) \div 1000 : k \in {0, 10, 50, 51, 100, 101, 1000}}

SevInit ==
    /\ apiKey = NULL
    /\ rf = NULL
    /\ model = NULL
    /\ isInitialized = FALSE
    /\ pending = [k \in RealKeys |-> 0]
    /\ initOut = "none"
    /\ stable = FALSE
    /\ now = 0
    /\ out = NoCall
    /\ issued = {}
    /\ sevIn \in {<<c1, a1, c2, a2>> : c1 \in SevConfs, a1 \in SevAreas,
                                       c2 \in SevConfs, a2 \in SevAreas}
    /\ sevOut = <<>>

Classify ==
    /\ sevIn # <<>>
    /\ sevOut = <<>>
    /\ sevOut' = <<determineSeverity(sevIn[1], sevIn[2]),
                   determineSeverity(sevIn[3], sevIn[4])>>
    /\ UNCHANGED <<svcVars, now, out, issued, sevIn>>

SevNext == Classify

SevSpec == SevInit /\ [][SevNext]_vars

----------------------------------------------------------------------------
(* Properties *)

Called == out.status # "none"

Dets == {out.dets[i] : i \in 1..Len(out.dets)}

\* The synthetic tag of a detection, part by part.
HasDemoId(d) == d.id.tag = "demo_mold"
HasDemoDescription(d) == d.description.prefix = "Demo: "
HasDemoRaw(d) == "demo" \in DOMAIN d.rawPrediction /\ d.rawPrediction.demo = TRUE

\* The order low < medium < high < critical.
Rank == [low |-> 0, medium |-> 1, high |-> 2, critical |-> 3]

\* The tier the priority rules of the classifier give, rule by rule.
RuleTier(c, a) ==
    CASE 10 * c > 8 * Scale /\ 10 * a > Scale -> "critical"
      [] ~(10 * c > 8 * Scale /\ 10 * a > Scale)
         /\ (10 * c > 7 * Scale \/ 100 * a > 5 * Scale) -> "high"
      [] ~(10 * c > 8 * Scale /\ 10 * a > Scale)
         /\ ~(10 * c > 7 * Scale \/ 100 * a > 5 * Scale)
         /\ 10 * c > 6 * Scale -> "medium"
      [] OTHER -> "low"

\* C1: determineSeverity returns the first match of the priority rules
\* (critical: confidence > 0.80 and area > 0.10; high: confidence > 0.70 or
\* area > 0.05; medium: confidence > 0.60; else low), the comparisons being
\* strict: confidence = 0.80 with area = 0.10 is not critical.
C1_SeverityPriorityRules ==
    sevOut # <<>> =>
        /\ sevOut[1] = RuleTier(sevIn[1], sevIn[2])
        /\ sevOut[2] = RuleTier(sevIn[3], sevIn[4])
        /\ (10 * sevIn[1] = 8 * Scale /\ 10 * sevIn[2] = Scale) => sevOut[1] # "critical"

C1_Witness ==
    /\ sevOut # <<>>
    /\ 10 * sevIn[1] = 8 * Scale
    /\ 10 * sevIn[2] = Scale
    /\ sevOut[1] = "high"
    /\ sevOut[2] = "critical"

\* C2: every detection detectMold returns, on the model path and on the demo
\* path, has a location box inside the frame: 0 <= x, 0 <= y,
\* x + width <= 1 and y + height <= 1.
C2_ClampedBox ==
    \A d \in Dets :
        /\ 0 <= d.location.x
        /\ 0 <= d.location.y
        /\ d.location.x + d.location.width <= Scale
        /\ d.location.y + d.location.height <= Scale

\* C3: no detection detectMold returns has a confidence below the minimum
\* threshold (default 0.5).
C3_ConfidenceGated ==
    \A d \in Dets : d.confidence >= CONFIDENCE_THRESHOLD

\* The call found the real service unusable: demo mode is off and the service
\* is not initialized, has no model, or model.detect failed.
ServiceUnusable ==
    /\ Called
    /\ apiKey # DemoKey
    /\ ~isAvailable \/ model = NULL \/ out.resp = "throws"

C5_SyntheticOnlyOnDemoKey ==
    Called =>
        /\ out.path = "mock" <=> apiKey = DemoKey
        /\ apiKey # DemoKey =>
              \A d \in Dets : ~HasDemoId(d) /\ ~HasDemoDescription(d) /\ ~HasDemoRaw(d)

C5_Witness ==
    /\ Called
    /\ apiKey = DemoKey
    /\ model # NULL
    /\ out.path = "mock"
    /\ Len(out.dets) = 2

\* C6: every detection of the synthetic fallback carries the synthetic tag
\* (id prefix demo_mold_, description prefix 'Demo:', rawPrediction.demo),
\* and no detection of the model path carries any part of it.
C6_SyntheticTagged ==
    \A d \in Dets :
        /\ out.path = "mock" => HasDemoId(d) /\ HasDemoDescription(d) /\ HasDemoRaw(d)
        /\ out.path = "real" => ~HasDemoId(d) /\ ~HasDemoDescription(d) /\ ~HasDemoRaw(d)

C6_Witness ==
    /\ out.path = "real"
    /\ Len(out.dets) > 0
    /\ \E id \in issued : id.tag = "demo_mold"

\* C7: a call of the synthetic fallback returns 0 to 2 detections, each with
\* confidence in [0.6, 0.9] and drawn area in [0.01, 0.06].
C7_MockBounds ==
    out.path = "mock" =>
        /\ Len(out.dets) \in 0..2
        /\ \A d \in Dets :
              /\ 6 * Scale <= 10 * d.confidence
              /\ 10 * d.confidence <= 9 * Scale
              /\ Scale <= 100 * d.rawPrediction.area
              /\ 100 * d.rawPrediction.area <= 6 * Scale

C7_Witness ==
    /\ out.path = "mock"
    /\ Len(out.dets) = 2
    /\ 10 * out.dets[1].confidence = 6 * Scale
    /\ 100 * out.dets[1].rawPrediction.area = Scale
    /\ 10 * out.dets[2].confidence > 8 * Scale
    /\ 100 * out.dets[2].rawPrediction.area > 5 * Scale

\* C8: no two detections returned by the detectMold calls on one service
\* have the same id, within a call and across calls.
C8_IdsUnique ==
    /\ \A i, j \in 1..Len(out.dets) : out.dets[i].id = out.dets[j].id => i = j
    /\ \A d \in Dets : d.id \notin issued

\* C9: determineSeverity is monotonically non-decreasing in both arguments:
\* c1 <= c2 and a1 <= a2 give determineSeverity(c1, a1) <=
\* determineSeverity(c2, a2) in the order low < medium < high < critical.
C9_SeverityMonotone ==
    (sevOut # <<>> /\ sevIn[1] <= sevIn[3] /\ sevIn[2] <= sevIn[4]) =>
        Rank[sevOut[1]] <= Rank[sevOut[2]]

C9_Witness ==
    /\ sevOut # <<>>
    /\ sevIn[1] < sevIn[3]
    /\ sevIn[2] < sevIn[4]
    /\ sevOut[1] = "medium"
    /\ sevOut[2] = "critical"

DescribedClass(d) ==
    IF "class" \in DOMAIN d.rawPrediction THEN d.rawPrediction.class ELSE "mold"

\* C11: on the model path the description is looked up by the lower-cased
\* class name: 'mold', 'mouldy' and 'fungal' have their own template, every
\* other class name gets the generic 'Mold-like substance detected' template,
\* and a prediction without a class is described as class 'mold'.
C11_DescriptionLookup ==
    out.path = "real" =>
        \A d \in Dets :
            /\ d.class = DescribedClass(d)
            /\ d.description.text =
                  CASE toLowerCase(DescribedClass(d)) = "mold" -> "Mold growth detected with"
                    [] toLowerCase(DescribedClass(d)) = "mouldy" -> "Moldy surface identified with"
                    [] toLowerCase(DescribedClass(d)) = "fungal" -> "Fungal growth observed with"
                    [] OTHER -> "Mold-like substance detected with"
            /\ d.description.pct = RoundPct(d.confidence)

\* The pixel box of a returned prediction: centre and size, a missing width
\* or height being 50 pixels and a missing centre coordinate 0.
PixelBox(p) ==
    [x |-> IF "x" \in DOMAIN p THEN p.x ELSE 0,
     y |-> IF "y" \in DOMAIN p THEN p.y ELSE 0,
     width |-> IF "width" \in DOMAIN p THEN p.width ELSE 50,
     height |-> IF "height" \in DOMAIN p THEN p.height ELSE 50]

\* v limited to [0, 1].
Clamp01(v) == IF v < 0 THEN 0 ELSE IF v > Scale THEN Scale ELSE v

\* C12: on the model path, for a prediction with non-negative centre and
\* size in an image of positive dimensions, location.x, location.y,
\* location.width and location.height each lie in [0, 1]; x and y are the
\* top-left corner (centre minus half the size) over the image dimension,
\* width and height the size over the image dimension, each limited to
\* [0, 1], and a missing width or height counts as 50 pixels.
C12_NormalisedCoordinates ==
    out.path = "real" =>
        \A d \in Dets :
            LET b == PixelBox(d.rawPrediction)
            IN (/\ b.x >= 0 /\ b.y >= 0 /\ b.width >= 0 /\ b.height >= 0
                /\ out.frame.width > 0 /\ out.frame.height > 0) =>
                  /\ d.location.x \in 0..Scale
                  /\ d.location.y \in 0..Scale
                  /\ d.location.width \in 0..Scale
                  /\ d.location.height \in 0..Scale
                  /\ d.location.x =
                        Clamp01(((2 * b.x - b.width) * Scale) \div (2 * out.frame.width))
                  /\ d.location.y =
                        Clamp01(((2 * b.y - b.height) * Scale) \div (2 * out.frame.height))
                  /\ d.location.width = Clamp01((b.width * Scale) \div out.frame.width)
                  /\ d.location.height = Clamp01((b.height * Scale) \div out.frame.height)

C12_Witness ==
    /\ out.path = "real"
    /\ out.frame = [width |-> 50, height |-> 100]
    /\ Len(out.dets) = 2
    /\ "width" \notin DOMAIN out.dets[1].rawPrediction
    /\ out.dets[1].location.width = Scale
    /\ out.dets[1].location.height = Scale \div 2
    /\ 2 * PixelBox(out.dets[2].rawPrediction).x < PixelBox(out.dets[2].rawPrediction).width
    /\ out.dets[2].location.x = 0

\* detectMold rejected as uninitialized.
RejectedUninitialized ==
    out.status = "rejected" /\ out.error = "Roboflow model not initialized"

\* C13: a failed initialize(key) with a non-demo key rejects and leaves the
\* service unavailable: isInitialized false, rf and model null, isAvailable()
\* false and detectMold rejecting with 'Roboflow model not initialized'; a
\* following initialize('demo') succeeds without contacting Roboflow and
\* makes isAvailable() true.
C13_FailedInitializeLeavesUnavailable ==
    [][/\ initOut' = "rejected" =>
            /\ ~isInitialized'
            /\ rf' = NULL
            /\ model' = NULL
            /\ ~isAvailable'
            /\ out'.status # "none" => RejectedUninitialized'
       /\ InitializeDemo =>
            /\ initOut' = "true"
            /\ isAvailable'
            /\ pending' = pending /\ rf' = rf /\ model' = model]_vars

\* C15: once some initialize call has resolved true and no initialize call
\* was started after it, isAvailable() is true and detectMold does not reject
\* as uninitialized, whatever earlier-started calls do afterwards.
C15_ResolvedInitializeNotRevoked ==
    stable => isAvailable /\ ~RejectedUninitialized

\* C16: detectMold returns a list of detections only in states where
\* isAvailable() is true.
C16_AvailableAgreesWithDetect ==
    out.status = "resolved" => isAvailable

\* The location box lies inside the frame.
BoxInsideFrame(d) ==
    /\ 0 <= d.location.x
    /\ 0 <= d.location.y
    /\ d.location.x + d.location.width <= Scale
    /\ d.location.y + d.location.height <= Scale

\* The tier of the priority rules for confidence c (in 1/Scale) and a
\* relative area given as the product wh of two sides (in 1/Scale each).
BoxTier(c, wh) ==
    IF 10 * c > 8 * Scale /\ 10 * wh > Scale * Scale THEN "critical"
    ELSE IF 10 * c > 7 * Scale \/ 20 * wh > Scale * Scale THEN "high"
    ELSE IF 10 * c > 6 * Scale THEN "medium"
    ELSE "low"

\* C14: on either path the severity of a returned detection is the
\* classifier's tier for the detection's confidence and the relative area
\* location.width x location.height of its emitted box, whenever that box
\* lies inside the frame.
C14_SeverityOfEmittedBox ==
    \A d \in Dets :
        BoxInsideFrame(d) =>
            d.severity = BoxTier(d.confidence, d.location.width * d.location.height)

====
